---- MODULE Spec2Model ----
(***************************************************************************)
(* Hackathon event dashboard (src/app.py): the synthetic dataset           *)
(* generator, the data-generation page that stores its result in the       *)
(* session, and the tabs that read the stored dataset.                     *)
(*                                                                         *)
(* Conventions.                                                            *)
(*   - The pseudo-random generator of the `random` module is one global    *)
(*     integer state; random.seed sets it, every draw advances it.  A raw  *)
(*     draw s stands for the float s / RandRes in [0, 1).                  *)
(*   - A datetime is a number of ticks since 2023-03-01 00:00:00, with     *)
(*     TicksPerSecond ticks to the second (timedelta's resolution).        *)
(*   - Time_Spent is kept in tenths of an hour (round(x, 1)).              *)
(*   - A text built by str.format or an f-string is the concatenation of   *)
(*     its literal parts and the substituted values.                       *)
(***************************************************************************)
EXTENDS Integers, Sequences, FiniteSets, TLC

\* ------------------------------------------------------------------ bounds

\* Number of states of the model PRNG, and the resolution of random.random().
RandRes == 1048576
\* Resolution of datetime/timedelta, in ticks per second.
TicksPerSecond == 4
\* Seeds passed to generate_dataset when it is called on its own: 0 .. MaxSeed.
MaxSeed == 3
\* Largest small num_participants passed to generate_dataset when it is called on
\* its own, and one larger count whose ids have two significant digits.
MaxCount == 2
BigCount == 11
\* The generator state the process starts with is one of 0 .. MaxBoot (the
\* `random` module seeds itself from the operating system).
MaxBoot == 1
\* Number of states of the model of numpy's global generator.
NpRandRes == 2
\* Largest value of the "Number of participants" slider offered (500 in the source).
MaxParticipants == 50
\* Largest number of feedback rows given to the text analysis when it is called
\* on its own.
MaxFeedbackRows == 2
\* Iterations of the loop of generate_dataset a thread runs between two points
\* where another thread can run.
BlockRows == 25

\* ------------------------------------------------------------ fixed pools

first_names == <<
  "James", "Mary", "John", "Patricia", "Robert", "Jennifer", "Michael", "Linda", "William", "Elizabeth",
  "David", "Susan", "Richard", "Jessica", "Joseph", "Sarah", "Thomas", "Karen", "Charles", "Nancy",
  "Christopher", "Lisa", "Daniel", "Margaret", "Matthew", "Betty", "Anthony", "Sandra", "Donald", "Ashley",
  "Mark", "Dorothy", "Paul", "Kimberly", "Steven", "Emily", "Andrew", "Donna", "Kenneth", "Michelle",
  "Joshua", "Carol", "Kevin", "Amanda", "Brian", "Melissa", "George", "Deborah", "Edward", "Stephanie",
  "Ronald", "Rebecca", "Timothy", "Laura", "Jason", "Helen", "Jeffrey", "Sharon", "Ryan", "Cynthia",
  "Rajesh", "Priya", "Sanjay", "Neha", "Vikram", "Ananya", "Arun", "Kavita", "Amit", "Deepika" >>

last_names == <<
  "Smith", "Johnson", "Williams", "Brown", "Jones", "Garcia", "Miller", "Davis", "Rodriguez", "Martinez",
  "Hernandez", "Lopez", "Gonzalez", "Wilson", "Anderson", "Thomas", "Taylor", "Moore", "Jackson", "Martin",
  "Lee", "Perez", "Thompson", "White", "Harris", "Sanchez", "Clark", "Ramirez", "Lewis", "Robinson",
  "Walker", "Young", "Allen", "King", "Wright", "Scott", "Torres", "Nguyen", "Hill", "Flores",
  "Patel", "Sharma", "Singh", "Kumar", "Shah", "Gupta", "Verma", "Joshi", "Malhotra", "Chopra" >>

colleges == <<
  "IIT Bombay", "IIT Delhi", "IIT Madras", "IIT Kanpur", "IIT Kharagpur",
  "BITS Pilani", "BITS Hyderabad", "BITS Goa", "NIT Trichy", "NIT Warangal",
  "NIT Surathkal", "Delhi Technological University", "VIT Vellore", "IIIT Hyderabad",
  "Manipal Institute of Technology", "SRM University", "Amrita University", "Thapar University",
  "College of Engineering Pune", "PES University", "SSN College of Engineering",
  "RV College of Engineering", "BMS College of Engineering", "MS Ramaiah Institute of Technology",
  "Jadavpur University", "Anna University", "KIIT University", "LNM Institute of Technology",
  "Chandigarh University", "Amity University", "Lovely Professional University", "Shiv Nadar University" >>

genders == << "Male", "Female", "Other" >>

\* A template is <<text before {domain}, text after {domain}>>.
positive_feedback == <<
  << "I loved the ", " hackathon! The mentors were very helpful." >>,
  << "Great experience in the ", " event. Would definitely participate again!" >>,
  << "The ", " challenge was tough but rewarding. Learned a lot!" >>,
  << "Amazing organization and support at the ", " track!" >>,
  << "Very insightful ", " hackathon. Made great connections!" >>,
  << "Thoroughly enjoyed working on ", " projects. The workshops were excellent!" >>,
  << "Well-structured ", " challenges. Got valuable industry exposure." >>,
  << "The ", " event was eye-opening! Can't wait for the next one." >>,
  << "Gained practical knowledge about ", ". Very beneficial for my career." >>,
  << "Excellent facilities and resources for the ", " hackathon!" >> >>

neutral_feedback == <<
  << "The ", " hackathon was okay. Some aspects could be improved." >>,
  << "Average experience at the ", " event. Nothing special." >>,
  << "The ", " track had some good and bad moments." >>,
  << "Decent organization of the ", " hackathon. Expected more mentorship." >>,
  << "The ", " challenge was moderately difficult. Internet connection was spotty." >>,
  << "Food could be better at the ", " event, but overall it was fine." >>,
  << "The ", " workshops were informative but too short." >>,
  << "Mixed feelings about the ", " track. Some judges seemed biased." >>,
  << "The ", " hackathon schedule was too tight. Barely had time to complete." >>,
  << "Moderate learning experience in ", ". Not sure if I'll participate again." >> >>

negative_feedback == <<
  << "The ", " hackathon was disappointing. Poor organization." >>,
  << "Not enough guidance in the ", " track. Felt lost most of the time." >>,
  << "Too many technical issues during the ", " challenge." >>,
  << "The ", " event was overcrowded and noisy. Couldn't focus." >>,
  << "Unclear instructions for the ", " hackathon. Very frustrating." >>,
  << "The ", " mentors were rarely available when needed." >>,
  << "The ", " track was too advanced for beginners. More tutorials needed." >>,
  << "Poor facilities at the ", " event. No proper rest areas." >>,
  << "The ", " hackathon was exhausting with minimal benefits." >>,
  << "Didn't learn much from the ", " workshops. Too basic content." >> >>

domain_keywords == [
  d \in { "Web Development", "Mobile App Development", "AI/ML", "Blockchain", "IoT",
          "Cybersecurity", "Game Development", "Data Science" } |->
    CASE d = "Web Development" ->
           << "HTML", "CSS", "JavaScript", "React", "frontend", "backend", "API", "responsive" >>
      [] d = "Mobile App Development" ->
           << "Android", "iOS", "Flutter", "React Native", "UI/UX", "mobile", "app" >>
      [] d = "AI/ML" ->
           << "machine learning", "neural networks", "algorithms", "data", "models", "tensorflow", "pytorch" >>
      [] d = "Blockchain" ->
           << "crypto", "smart contracts", "decentralized", "ethereum", "tokens", "web3", "ledger" >>
      [] d = "IoT" ->
           << "sensors", "devices", "connectivity", "embedded", "Arduino", "Raspberry Pi", "automation" >>
      [] d = "Cybersecurity" ->
           << "security", "encryption", "vulnerability", "firewall", "protection", "hacking", "privacy" >>
      [] d = "Game Development" ->
           << "Unity", "Unreal", "gameplay", "graphics", "mechanics", "levels", "characters" >>
      [] d = "Data Science" ->
           << "visualization", "analytics", "big data", "pandas", "prediction", "statistics", "insights" >> ]

\* -------------------------------------------------- the `random` module

\* random.seed(seed): the generator state is a function of the seed alone.
random_seed(seed) == (seed * 2731 + 977) % RandRes

\* One step of the generator; the new state is also the raw draw.
random_next(s) == (s * 1229 + 1013) % RandRes

\* The state after k further draws.
RECURSIVE random_skip(_, _)
random_skip(s, k) == IF k = 0 THEN s ELSE random_skip(random_next(s), k - 1)

\* int(random() * n) for the raw draw s: an index in 0 .. n-1.
randbelow(s, n) == (s * n) \div RandRes

\* random.randint(a, b) for the raw draw s.
randint(s, a, b) == a + randbelow(s, b - a + 1)

\* random.choice(seq) for the raw draw s (seq is not empty).
choice(s, seq) == seq[1 + randbelow(s, Len(seq))]

\* The elements of a list.
Elements(seq) == { seq[k] : k \in 1 .. Len(seq) }

\* round half to even of num / den (den > 0, num >= 0).
round_div(num, den) ==
  LET q == num \div den
      r == num % den
  IN  IF 2 * r > den \/ (2 * r = den /\ q % 2 = 1) THEN q + 1 ELSE q

\* A draw from 0 to 10 hours, in tenths.
round_uniform_0_10(s) == round_div(100 * s, RandRes)

\* round(random.uniform(4, 10), 1) for the raw draw s, in tenths.
round_uniform_4_10(s) == round_div(40 * RandRes + 60 * s, RandRes)

\* random.choices(["positive", "neutral", "negative"], weights=[0.6, 0.3, 0.1])[0]
\* for the raw draw s: bisect of s / RandRes in the cumulative weights 0.6, 0.9.
choices_sentiment(s) ==
  IF 10 * s < 6 * RandRes THEN "positive"
  ELSE IF 10 * s < 9 * RandRes THEN "neutral"
  ELSE "negative"

\* ------------------------------------------------------------- datetime

\* datetime(2023, 3, d, h, m, sec) in ticks since 2023-03-01 00:00:00.
datetime_march(d, h, m, sec) ==
  ((((d - 1) * 24 + h) * 60 + m) * 60 + sec) * TicksPerSecond

\* The days of a difference counted with the day that has begun.
timedelta_days_begun(delta) == delta \div (86400 * TicksPerSecond) + 1

\* timedelta.days of a non-negative difference of two datetimes.
timedelta_days(delta) == delta \div (86400 * TicksPerSecond)

\* timedelta(days = num_days / RandRes, seconds = 86400 * num_secs / RandRes):
\* the two floats are added and rounded (half to even) to the resolution.
\* (The fraction r / RandRes of a day is turned into minutes, seconds and ticks
\* one after the other, so that no product leaves the 32-bit integers.)
timedelta_of(num_days, num_secs) ==
  LET x       == num_days + num_secs
      q       == x \div RandRes
      r       == x % RandRes
      minutes == (r * 1440) \div RandRes
      r1      == (r * 1440) % RandRes
      seconds == (r1 * 60) \div RandRes
      r2      == (r1 * 60) % RandRes
      ticks   == (r2 * TicksPerSecond) \div RandRes
      rem     == (r2 * TicksPerSecond) % RandRes
      whole   == ((q * 1440 + minutes) * 60 + seconds) * TicksPerSecond + ticks
  IN  IF 2 * rem > RandRes \/ (2 * rem = RandRes /\ whole % 2 = 1)
        THEN whole + 1 ELSE whole

\* generate_dataset.random_date_time for the raw draws s1 (days) and s2 (seconds).
random_date_time(s1, s2, start_date, end_date) ==
  LET delta == end_date - start_date
  IN  start_date + timedelta_of(s1 * timedelta_days(delta), s2)

\* ------------------------------------------------------------ cell values

\* The values a table cell holds, each with its type: a str, an int, a
\* datetime (in ticks) and a float (kept in tenths).
str(t) == [ type |-> "str", str |-> t ]
int(n) == [ type |-> "int", int |-> n ]
Datetime(t) == [ type |-> "datetime", ticks |-> t ]
Float(tenths) == [ type |-> "float", tenths |-> tenths ]

\* ------------------------------------------------------ generate_dataset

\* f"P{i:03d}"
participant_id(i) ==
  IF i < 10 THEN "P00" \o ToString(i)
  ELSE IF i < 100 THEN "P0" \o ToString(i)
  ELSE "P" \o ToString(i)

\* template.format(domain=domain)
format_domain(template, domain) == template[1] \o domain \o template[2]

\* The positive templates for every label.
feedback_pool_positive(sentiment) == positive_feedback

\* The template pool of a sentiment label (the if / elif / else on sentiment).
feedback_pool(sentiment) ==
  IF sentiment = "positive" THEN positive_feedback
  ELSE IF sentiment = "neutral" THEN neutral_feedback
  ELSE negative_feedback

\* f" The {keyword} component was particularly interesting."
extra_phrase(keyword) == " The " \o keyword \o " component was particularly interesting."

\* The two ranges taken the other way round.
project_completion_swapped(s, sentiment) ==
  IF sentiment = "negative" THEN randint(s, 60, 100) ELSE randint(s, 30, 85)

\* random.randint(60, 100) if sentiment != "negative" else random.randint(30, 85)
project_completion(s, sentiment) ==
  IF sentiment # "negative" THEN randint(s, 60, 100) ELSE randint(s, 30, 85)

\* state = random.choice(states) and domain = random.choice(domains), for the
\* raw draw s.
pick_state(s, domains, states) == choice(s, states)
\* A domain drawn from the other list.
pick_domain_from_states(s, domains, states) == choice(s, states)
pick_domain(s, domains, states) == choice(s, domains)

\* start_date and end_date of the registration draw of a row of day `day`.
registration_start(day) == datetime_march(15, 0, 0, 0)
\* An end one day later.
registration_end_next_day(day) == datetime_march(15 + day, 23, 59, 59)
registration_end(day) == datetime_march(15 + day - 1, 23, 59, 59)

\* A draw from the first names in place of the colleges.
pick_college_elsewhere(s) == choice(s, first_names)

\* random.choice(colleges)
pick_college(s) == choice(s, colleges)

\* One iteration of the loop, entered with generator state s0, for which neither
\* states nor domains is empty: the row, and the generator state after it.
generate_row(s0, i, domains, states) ==
  LET s1  == random_next(s0)    \* first name
      s2  == random_next(s1)    \* last name
      s3  == random_next(s2)    \* age
      s4  == random_next(s3)    \* gender
      s5  == random_next(s4)    \* college
      s6  == random_next(s5)    \* state
      s7  == random_next(s6)    \* domain
      s8  == random_next(s7)    \* day
      s9  == random_next(s8)    \* random_days
      s10 == random_next(s9)    \* random_seconds
      s11 == random_next(s10)   \* time_spent
      s12 == random_next(s11)   \* sentiment
      s13 == random_next(s12)   \* template
      domain    == pick_domain(s7, domains, states)
      day       == randint(s8, 1, 3)
      sentiment == choices_sentiment(s12)
      template  == choice(s13, feedback_pool(sentiment))
      hasKw     == domain \in DOMAIN domain_keywords
      s14 == IF hasKw THEN random_next(s13) ELSE s13    \* keyword
      s15 == random_next(s14)   \* project_completion
      feedback  == IF hasKw
                     THEN format_domain(template, domain)
                            \o extra_phrase(choice(s14, domain_keywords[domain]))
                     ELSE format_domain(template, domain)
  IN  [ row |-> [ Participant_ID     |-> str(participant_id(i)),
                  Name               |-> str(choice(s1, first_names) \o " "
                                               \o choice(s2, last_names)),
                  Age                |-> int(randint(s3, 18, 35)),
                  Gender             |-> str(choice(s4, genders)),
                  College            |-> str(pick_college(s5)),
                  State              |-> str(pick_state(s6, domains, states)),
                  Domain             |-> str(domain),
                  Day                |-> int(day),
                  Registration_Time  |-> Datetime(random_date_time(s9, s10,
                                           registration_start(day), registration_end(day))),
                  Time_Spent         |-> Float(round_uniform_4_10(s11)),
                  Project_Completion |-> int(project_completion(s15, sentiment)),
                  Feedback           |-> str(feedback) ],
        rng |-> s15 ]

\* The generator state at which random.choice raises IndexError in an iteration
\* entered with state s0: five draws precede random.choice(states), one more
\* precedes random.choice(domains).
index_error_state(s0, states) ==
  IF Len(states) = 0 THEN random_skip(s0, 5) ELSE random_skip(s0, 6)

\* for i in range(i, num_participants + 1): ... data.append(...)
RECURSIVE generate_loop(_, _, _, _, _, _)
generate_loop(s, i, num_participants, domains, states, data) ==
  IF i > num_participants
    THEN [ status |-> "ok", data |-> data, rng |-> s ]
  ELSE IF Len(states) = 0 \/ Len(domains) = 0
    THEN [ status |-> "IndexError", data |-> << >>, rng |-> index_error_state(s, states) ]
  ELSE LET g == generate_row(s, i, domains, states)
       IN  generate_loop(g.rng, i + 1, num_participants, domains, states,
                         Append(data, g.row))

\* The generator left in the state the call found it in.
reseed_skipped(rng, seed) == rng

\* random.seed(seed) as an assignment to the global generator state rng.
reseed(rng, seed) == random_seed(seed)

\* A range that starts at 0.
first_index_zero == 1 - 1

\* range(1, num_participants + 1) starts at 1.
first_index == 1

\* generate_dataset(num_participants, domains, states, seed), called when the
\* global generator state is rng: the table returned (or the exception raised)
\* and the global generator state it leaves.
generate_dataset(rng, num_participants, domains, states, seed) ==
  generate_loop(reseed(rng, seed), first_index, num_participants, domains, states, << >>)

\* np.random.seed(seed) and one draw of numpy's global generator.
np_random_seed(seed) == seed % NpRandRes
np_random_next(s) == (s + 1) % NpRandRes

\* ------------------------------------------------------------------ state

VARIABLES
  rng,             \* state of the global generator of the `random` module
  np_rng,          \* state of numpy's global generator
  session_state,   \* st.session_state: a dict with no key, or with the key hackathon_data
  csv_file,        \* contents of hackathon_data.csv on disk, or NoFile
  pc,              \* position of the script run in main()
  screen,          \* what the current run has put on the page
  call,            \* the generate_dataset call made by the current run, or NoCall
  gen_args,        \* arguments of the direct calls of generate_dataset
  gen_result,      \* what the latest direct call returned or raised, or NoResult
  gen_first,       \* what the first direct call returned or raised, or NoResult
  gen_log,         \* the direct calls so far: how many (up to 2), and whether
                   \* another operation ran between the first and the latest
  threads,         \* the script threads of the sessions of one process: for each
                   \* session its position in the "Generate Dataset" branch, the
                   \* locals of its generate_dataset call and its own st.session_state
  analysis         \* a direct call of the text analysis of the feedback tab: the
                   \* feedback texts it is given, and what it computed, or NoResult

vars == << rng, np_rng, session_state, csv_file, pc, screen, call,
           gen_args, gen_result, gen_first, gen_log, threads, analysis >>

page_vars == << session_state, csv_file, pc, screen, call >>
gen_vars == << gen_args, gen_result, gen_first, gen_log >>
other_vars == << threads, analysis >>
off_page_vars == << gen_vars, other_vars >>

\* The session state before any dataset was stored: no key at all.
EmptySession == [ k \in { } |-> 0 ]
NoFile == [ exists |-> FALSE ]
NoCall == [ status |-> "none" ]
NoResult == [ status |-> "none" ]
NoWidgets == [ l \in { } |-> 0 ]
EmptyScreen == [ widgets |-> NoWidgets, data_tab |-> << >>, analytics_tab |-> << >>,
                 feedback_tab |-> << >>, image_tab |-> << >> ]

NoAnalysis == [ feedbacks |-> << >>, result |-> [ status |-> "none" ] ]

BootStates == 0 .. MaxBoot

\* The sessions of the process, and a script thread that has not reached the
\* "Generate Dataset" button.
Sessions == { "A", "B" }
IdleThread ==
  [ pc |-> "idle", args |-> [ k \in { } |-> 0 ], i |-> 0, data |-> << >>,
    session_state |-> [ k \in { } |-> 0 ], download |-> [ exists |-> FALSE ] ]

\* ------------------------------------- generate_dataset called on its own

\* Arguments of the direct calls: counts below 1, empty lists and a domain
\* without a keyword pool included.
CountChoices == ((0 - 1) .. MaxCount) \cup { BigCount }
DomainsChoices ==
  { << >>, << "AI/ML" >>, << "Web Development", "IoT" >>, << "Robotics", "Data Science" >> }
StatesChoices == { << >>, << "Delhi" >>, << "Goa", "Kerala", "Punjab" >> }
SeedChoices == 0 .. MaxSeed

\* What a caller of generate_dataset observes: the table, or the exception.
observed(g) == [ status |-> g.status, data |-> g.data ]

InitGen ==
  /\ rng \in BootStates
  /\ np_rng = 0
  /\ session_state = EmptySession
  /\ csv_file = NoFile
  /\ pc = "home"
  /\ screen = EmptyScreen
  /\ call = NoCall
  /\ gen_args \in [ num_participants : CountChoices, domains : DomainsChoices,
                    states : StatesChoices, seed : SeedChoices ]
  /\ gen_result = NoResult
  /\ gen_first = NoResult
  /\ gen_log = [ calls |-> 0, disturbed |-> FALSE, between |-> FALSE ]
  /\ threads = [ t \in Sessions |-> IdleThread ]
  /\ analysis = NoAnalysis

\* generate_dataset(num_participants, domains, states, seed) with the fixed arguments.
CallGenerate ==
  LET g == generate_dataset(rng, gen_args.num_participants, gen_args.domains,
                            gen_args.states, gen_args.seed)
  IN  /\ gen_result' = observed(g)
      /\ gen_first' = IF gen_first = NoResult THEN observed(g) ELSE gen_first
      /\ gen_log' = [ calls     |-> IF gen_log.calls = 0 THEN 1 ELSE 2,
                      disturbed |-> FALSE,
                      between   |-> gen_log.disturbed ]
      /\ rng' = g.rng
      /\ np_rng' = np_random_seed(gen_args.seed)
      /\ UNCHANGED << gen_args, page_vars, other_vars >>

\* Another generation, with another seed, between two calls with the fixed arguments.
CallOtherGenerate ==
  \E seed \in SeedChoices \ { gen_args.seed } :
    LET g == generate_dataset(rng, 1, << "Blockchain" >>, << "Assam" >>, seed)
    IN  /\ gen_log.calls > 0
        /\ rng' = g.rng
        /\ np_rng' = np_random_seed(seed)
        /\ gen_log' = [ gen_log EXCEPT !.disturbed = TRUE ]
        /\ UNCHANGED << gen_args, gen_result, gen_first, page_vars, other_vars >>

\* DataFrame.sample(5) on some table between two calls: one use of numpy's generator.
CallSample ==
  /\ gen_log.calls > 0
  /\ np_rng' = np_random_next(np_rng)
  /\ UNCHANGED << rng, gen_args, gen_result, gen_first, gen_log, page_vars, other_vars >>

NextGen == CallGenerate \/ CallOtherGenerate \/ CallSample

SpecGen == InitGen /\ [][NextGen]_vars

\* ------------------------------------------------------------ CSV files

\* A CSV file is a sequence of lines, the first one the header; a line is a
\* sequence of cells.  A cell is the text written for a value: lex tells what
\* the text looks like to a reader (an integer literal, a decimal literal, or
\* any other text), val what it denotes.
IntCell(n) == [ lex |-> "int", val |-> n ]
FloatCell(tenths) == [ lex |-> "float", val |-> tenths ]
TextCell(t) == [ lex |-> "text", val |-> t ]

csv_columns == << "Participant_ID", "Name", "Age", "Gender", "College", "State", "Domain",
                  "Day", "Registration_Time", "Time_Spent", "Project_Completion", "Feedback" >>

\* n written with at least two (six) digits.
pad2(n) == IF n < 10 THEN "0" \o ToString(n) ELSE ToString(n)
pad6(n) ==
  IF n >= 100000 THEN ToString(n)
  ELSE IF n >= 10000 THEN "0" \o ToString(n)
  ELSE IF n >= 1000 THEN "00" \o ToString(n)
  ELSE IF n >= 100 THEN "000" \o ToString(n)
  ELSE IF n >= 10 THEN "0000" \o ToString(n)
  ELSE "00000" \o ToString(n)

\* The text to_csv writes for a datetime of March 2023: date, time, and the
\* microseconds when they are not zero.
str_datetime(t) ==
  LET secs   == t \div TicksPerSecond
      micros == ((t % TicksPerSecond) * 1000000) \div TicksPerSecond
      base   == "2023-03-" \o pad2(secs \div 86400 + 1) \o " "
                  \o pad2((secs % 86400) \div 3600) \o ":"
                  \o pad2((secs % 3600) \div 60) \o ":"
                  \o pad2(secs % 60)
  IN  IF micros = 0 THEN base ELSE base \o "." \o pad6(micros)

\* The line to_csv writes for a row of a generated table.
to_csv_line(row) ==
  << TextCell(row.Participant_ID.str), TextCell(row.Name.str), IntCell(row.Age.int),
     TextCell(row.Gender.str), TextCell(row.College.str), TextCell(row.State.str),
     TextCell(row.Domain.str), IntCell(row.Day.int),
     TextCell(str_datetime(row.Registration_Time.ticks)),
     FloatCell(row.Time_Spent.tenths), IntCell(row.Project_Completion.int),
     TextCell(row.Feedback.str) >>

\* data.to_csv(index=False) for a generated table.
to_csv(data) ==
  << [ j \in 1 .. Len(csv_columns) |-> TextCell(csv_columns[j]) ] >>
    \o [ i \in 1 .. Len(data) |-> to_csv_line(data[i]) ]

\* The dtype pandas infers for column j of the file: int64 when every cell is
\* an integer literal, float64 when every cell is a number, object otherwise.
column_dtype(file, j) ==
  LET cells == { file[i][j].lex : i \in { i \in 2 .. Len(file) : j <= Len(file[i]) } }
  IN  IF cells \subseteq { "int" } THEN "int64"
      ELSE IF cells \subseteq { "int", "float" } THEN "float64"
      ELSE "object"

\* The value read from a cell of a column of the given dtype.
parse_cell(dtype, cell) ==
  IF dtype = "int64" THEN int(cell.val)
  ELSE IF dtype = "float64"
    THEN (IF cell.lex = "int" THEN Float(10 * cell.val) ELSE Float(cell.val))
  ELSE IF cell.lex = "int" THEN str(ToString(cell.val))
  ELSE IF cell.lex = "float"
    THEN str(ToString(cell.val \div 10) \o "." \o ToString(cell.val % 10))
  ELSE str(cell.val)

\* A cell a short line leaves out.
NaN == [ type |-> "NaN" ]

\* Every file read as a table of no rows.
read_csv_lenient(file) == [ status |-> "ok", data |-> << >> ]

\* pd.read_csv(uploaded_file), for a file whose first data line is no longer
\* than its header: the table, or the exception raised (no columns to parse; a
\* line with more fields than expected).
read_csv(file) ==
  IF Len(file) = 0
    THEN [ status |-> "EmptyDataError", data |-> << >> ]
  ELSE IF \E i \in 2 .. Len(file) : Len(file[i]) > Len(file[1])
    THEN [ status |-> "ParserError", data |-> << >> ]
  ELSE LET header == file[1]
           names  == { header[j].val : j \in 1 .. Len(header) }
           col    == [ c \in names |-> CHOOSE j \in 1 .. Len(header) : header[j].val = c ]
           dtype  == [ j \in 1 .. Len(header) |-> column_dtype(file, j) ]
       IN  [ status |-> "ok",
             data   |-> [ i \in 1 .. Len(file) - 1 |->
                          [ c \in names |->
                              IF col[c] <= Len(file[i + 1])
                                THEN parse_cell(dtype[col[c]], file[i + 1][col[c]])
                                ELSE NaN ] ] ]

\* ----------------------------------------------------------- page widgets

\* st.slider("Number of participants", 50, 500, 350)
SliderMin == 50
ParticipantsChoices == SliderMin .. MaxParticipants

\* The options of the domain multiselect.
domain_options ==
  << "Web Development", "Mobile App Development", "AI/ML", "Blockchain", "IoT",
     "Cybersecurity", "Game Development", "Data Science" >>

\* The default selections of the two multiselects.
default_domains == << "Web Development", "Mobile App Development", "AI/ML", "Blockchain", "IoT" >>
default_states == << "Maharashtra", "Karnataka", "Tamil Nadu", "Delhi", "Uttar Pradesh",
                     "Gujarat", "Telangana", "West Bengal", "Rajasthan", "Punjab" >>

\* Selections a run is made with: the default one, or everything deselected.
PageDomainsChoices == { << >>, default_domains }
PageStatesChoices == { << >>, default_states }
\* st.number_input("Random Seed ...", min_value=0, max_value=9999, value=42):
\* the smallest seed and the default one.
PageSeedChoices == { 0, 42 }

\* Files a user has at hand for the CSV uploader: a well-formed table written
\* by another program, an empty file, a file with a line longer than its
\* header, and whatever the application last saved as hackathon_data.csv.
foreign_csv ==
  << [ j \in 1 .. Len(csv_columns) |-> TextCell(csv_columns[j]) ],
     << TextCell("X1"), TextCell("Ada"), IntCell(30), TextCell("Female"), TextCell("IIT Delhi"),
        TextCell("Goa"), TextCell("AI/ML"), IntCell(1), TextCell("15/03/2023"),
        IntCell(5), IntCell(40), TextCell("The AI/ML hackathon was okay.") >>,
     << TextCell("X2"), TextCell("Bob"), IntCell(41), TextCell("Male"), TextCell("MIT"),
        TextCell("Kerala"), TextCell("Robotics"), IntCell(2), TextCell("16/03/2023"),
        FloatCell(75), IntCell(90), TextCell("Great robots.") >> >>
empty_csv == << >>
ragged_csv ==
  << << TextCell("Participant_ID"), TextCell("Domain") >>,
     << TextCell("X1"), TextCell("AI/ML") >>,
     << TextCell("X2"), TextCell("IoT"), TextCell("stray") >> >>
narrow_csv ==
  << << TextCell("Participant_ID"), TextCell("Domain") >>,
     << TextCell("X1"), TextCell("AI/ML") >> >>

NoUpload == [ uploaded |-> FALSE, name |-> "" ]
Upload(name, lines) == [ uploaded |-> TRUE, name |-> name, lines |-> lines ]
UploadChoices ==
  { NoUpload, Upload("foreign.csv", foreign_csv), Upload("narrow.csv", narrow_csv),
    Upload("empty.csv", empty_csv), Upload("ragged.csv", ragged_csv) }
    \cup ( IF csv_file.exists THEN { Upload("hackathon_data.csv", csv_file.lines) } ELSE { } )

\* --------------------------------------------------------- what is shown

show(tab, element) == [ screen EXCEPT ![tab] = Append(@, element) ]

\* The page scr with the widget of the given label holding the given value.
with_widget(scr, label, value) ==
  [ scr EXCEPT !.widgets =
      [ l \in DOMAIN scr.widgets \cup { label } |->
          IF l = label THEN value ELSE scr.widgets[l] ] ]
RECURSIVE show_all(_, _, _)
show_all(scr, tab, elements) ==
  IF Len(elements) = 0 THEN scr
  ELSE show_all([ scr EXCEPT ![tab] = Append(@, Head(elements)) ], tab, Tail(elements))

\* data.head(): the first five rows.
head(data) == SubSeq(data, 1, IF Len(data) < 5 THEN Len(data) ELSE 5)

\* A session taken to hold no dataset, whatever it holds.
HasDataNever == FALSE

\* 'hackathon_data' in st.session_state
HasData == "hackathon_data" \in DOMAIN session_state

\* -------------------------------------------------------------- the run

Init ==
  /\ rng \in BootStates
  /\ np_rng = 0
  /\ session_state = EmptySession
  /\ csv_file = NoFile
  /\ pc = "home"
  /\ screen = EmptyScreen
  /\ call = NoCall
  /\ gen_args = [ num_participants |-> 0, domains |-> << >>, states |-> << >>, seed |-> 0 ]
  /\ gen_result = NoResult
  /\ gen_first = NoResult
  /\ gen_log = [ calls |-> 0, disturbed |-> FALSE, between |-> FALSE ]
  /\ threads = [ t \in Sessions |-> IdleThread ]
  /\ analysis = NoAnalysis

\* A script run starts: the page is cleared and show_home() draws the first tab.
ShowHome ==
  /\ pc = "home"
  /\ pc' = "data_generation"
  /\ screen' = EmptyScreen
  /\ call' = NoCall
  /\ UNCHANGED << rng, np_rng, session_state, csv_file, off_page_vars >>

\* The new rows added to the rows already stored.
store_appended(data) ==
  [ hackathon_data |-> IF HasData THEN session_state.hackathon_data \o data ELSE data ]

\* session_state after st.session_state.hackathon_data = data
store(data) == [ hackathon_data |-> data ]

\* The selection that passes no domain at all.
no_domains_ignored(domains) == FALSE

\* Every selection taken for an empty one.
no_domains_always(domains) == TRUE

\* len(domains) < 1
no_domains(domains) == Len(domains) < 1

\* The page going on to the uploader after the error.
after_no_domains_uploader == "upload"

\* st.error(...) and return: generate_dataset_page() is left, and main() goes
\* on with the analytics tab.
after_no_domains == "analytics"

\* generate_dataset_page() up to the uploader: the widgets, the check of the
\* domain selection and the "Generate Dataset" button.
GenerateDatasetPage ==
  /\ pc = "data_generation"
  /\ \E num_participants \in ParticipantsChoices, domains \in PageDomainsChoices,
        selected_states \in PageStatesChoices, seed \in PageSeedChoices,
        button \in BOOLEAN :
       LET page == with_widget(screen, "Select Hackathon Domains", domains)
           form == with_widget(page, "Select States", selected_states)
       IN  IF no_domains(domains)
             THEN /\ screen' = show_all(page, "data_tab",
                                        << "error: Please select at least one domain" >>)
                  /\ pc' = after_no_domains
                  /\ UNCHANGED << rng, np_rng, session_state, csv_file, call >>
           ELSE IF ~button
             THEN /\ screen' = form
                  /\ pc' = "upload"
                  /\ UNCHANGED << rng, np_rng, session_state, csv_file, call >>
           ELSE LET g == generate_dataset(rng, num_participants, domains, selected_states, seed)
                IN  /\ call' = [ status |-> g.status, num_participants |-> num_participants,
                                 domains |-> domains, states |-> selected_states, seed |-> seed ]
                    /\ rng' = g.rng
                    /\ np_rng' = np_random_seed(seed)
                    /\ IF g.status = "ok"
                         THEN /\ session_state' = store(g.data)
                              /\ csv_file' = [ exists |-> TRUE, lines |-> to_csv(g.data) ]
                              /\ screen' = show_all(form, "data_tab",
                                   << "success: generated", "dataframe", "download link",
                                      "success: saved locally" >>)
                              /\ pc' = "upload"
                         ELSE /\ screen' = show_all(form, "data_tab",
                                                    << "exception: " \o g.status >>)
                              /\ pc' = "home"
                              /\ UNCHANGED << session_state, csv_file >>
  /\ UNCHANGED off_page_vars

\* A file in the uploader passed over in a run that has generated a dataset.
is_not_none_unless_generated(uploaded_file) == uploaded_file.uploaded /\ call = NoCall

\* uploaded_file is not None
is_not_none(uploaded_file) == uploaded_file.uploaded

\* generate_dataset_page() from the uploader on.
UploadDataset ==
  /\ pc = "upload"
  /\ \E uploaded_file \in UploadChoices :
       LET page == with_widget(screen, "Upload a CSV file", uploaded_file.name)
       IN  IF ~is_not_none(uploaded_file)
             THEN /\ screen' = page
                  /\ pc' = "analytics"
                  /\ UNCHANGED session_state
           ELSE LET r == read_csv(uploaded_file.lines)
                IN  IF r.status = "ok"
                      THEN /\ session_state' = store(r.data)
                           /\ screen' = show_all(page, "data_tab",
                                                 << "success: loaded", "dataframe" >>)
                           /\ pc' = "analytics"
                      ELSE /\ screen' = show_all(page, "data_tab",
                                                 << "exception: " \o r.status >>)
                           /\ pc' = "home"
                           /\ UNCHANGED session_state
  /\ UNCHANGED << rng, np_rng, csv_file, call, off_page_vars >>

\* Series.unique().tolist(): the values of a column in order of first appearance.
unique(data, column) ==
  LET first(i) == \A j \in 1 .. i - 1 : data[j][column] # data[i][column]
      firsts   == SelectSeq([ i \in 1 .. Len(data) |-> i ], first)
  IN  [ k \in 1 .. Len(firsts) |-> data[firsts[k]][column] ]

\* all[:5] if len(all) > 5 else all
first_five(all) == IF Len(all) > 5 THEN SubSeq(all, 1, 5) ELSE all

\* sorted(all) for a list of distinct ints.
sorted(all) ==
  [ k \in 1 .. Len(all) |->
      CHOOSE v \in Elements(all) :
        Cardinality({ u \in Elements(all) : u.int < v.int }) = k - 1 ]

Columns(data) == IF Len(data) = 0 THEN { } ELSE DOMAIN data[1]

\* filtered_data of analytics_dashboard for the four selections: the rows the
\* mask keeps, in their order.
apply_filters(data, sel) ==
  LET keep(r) == /\ r.Domain \in Elements(sel.domains)
                 /\ r.State \in Elements(sel.states)
                 /\ r.College \in Elements(sel.colleges)
                 /\ r.Day \in Elements(sel.days)
  IN  SelectSeq(data, keep)

\* The selections the four sidebar multiselects start with.
default_filters(data) ==
  [ domains  |-> unique(data, "Domain"),
    states   |-> first_five(unique(data, "State")),
    colleges |-> first_five(unique(data, "College")),
    days     |-> sorted(unique(data, "Day")) ]

\* Selections a run is made with: the defaults, every state and college
\* selected and only the first day kept, or every domain deselected.
FilterChoices(data) ==
  LET d == default_filters(data)
  IN  { d,
        [ d EXCEPT !.states = unique(data, "State"), !.colleges = unique(data, "College"),
                   !.days = SubSeq(d.days, 1, 1) ],
        [ d EXCEPT !.domains = << >> ] }

\* The columns analytics_dashboard reads for its filters, and for its charts.
filter_columns == { "Domain", "State", "College", "Day" }
chart_columns == { "Gender", "Age", "Time_Spent", "Project_Completion" }

\* A table reported as never empty.
empty_never(frame) == FALSE

\* DataFrame.empty
empty(frame) == Len(frame) = 0

\* tabs[2] of main(): analytics_dashboard on the stored dataset, or the warning.
AnalyticsDashboard ==
  /\ pc = "analytics"
  /\ IF ~HasData
       THEN /\ screen' = show("analytics_tab", [ kind |-> "warning: Please generate or upload data" ])
            /\ pc' = "feedback"
     ELSE LET data == session_state.hackathon_data
          IN  IF ~(filter_columns \subseteq Columns(data))
                THEN /\ screen' = show("analytics_tab", [ kind |-> "exception: KeyError" ])
                     /\ pc' = "home"
              ELSE \E sel \in FilterChoices(data) :
                     LET filtered_data == apply_filters(data, sel)
                     IN  IF empty(filtered_data)
                           THEN /\ screen' = show("analytics_tab",
                                       [ kind |-> "warning: No data available", selection |-> sel,
                                         participants |-> Len(filtered_data) ])
                                /\ pc' = "feedback"
                         ELSE IF ~(chart_columns \subseteq Columns(data))
                           THEN /\ screen' = show("analytics_tab", [ kind |-> "exception: KeyError" ])
                                /\ pc' = "home"
                         ELSE /\ screen' = show("analytics_tab",
                                       [ kind |-> "charts", selection |-> sel,
                                         participants |-> Len(filtered_data) ])
                              /\ pc' = "feedback"
  /\ UNCHANGED << rng, np_rng, session_state, csv_file, call, off_page_vars >>

\* domain_data.sample(5) for the state s of numpy's generator: five rows.
sample(domain_data, s) ==
  [ k \in 1 .. 5 |-> domain_data[1 + ((s + (k - 1) * (Len(domain_data) \div 5)) % Len(domain_data))] ]

\* domain_feedback_analysis(data, domain, ...) entered with numpy's generator in
\* state s: what it shows, and the state it leaves.
domain_feedback_analysis(data, domain, s) ==
  LET keep(r) == r.Domain = domain
      domain_data == SelectSeq(data, keep)
  IN  IF Len(domain_data) = 0
        THEN [ shown |-> [ kind |-> "warning: No feedback data", domain |-> domain ],
               np_rng |-> s ]
      ELSE IF Len(domain_data) > 5
        THEN [ shown |-> [ kind |-> "analysis", domain |-> domain,
                           num_participants |-> Len(domain_data),
                           sample_feedback |->
                             [ k \in 1 .. 5 |-> sample(domain_data, np_random_next(s))[k].Participant_ID ] ],
               np_rng |-> np_random_next(s) ]
      ELSE [ shown |-> [ kind |-> "analysis", domain |-> domain,
                         num_participants |-> Len(domain_data),
                         sample_feedback |->
                           [ k \in 1 .. Len(domain_data) |-> domain_data[k].Participant_ID ] ],
             np_rng |-> s ]

\* for domain in selected_domains_feedback: domain_feedback_analysis(...)
RECURSIVE feedback_domains(_, _, _, _)
feedback_domains(data, selected, s, shown) ==
  IF Len(selected) = 0 THEN [ shown |-> shown, np_rng |-> s ]
  ELSE LET a == domain_feedback_analysis(data, Head(selected), s)
       IN  feedback_domains(data, Tail(selected), a.np_rng, Append(shown, a.shown))

\* Selections of "Select Domains for Feedback": the default (the first domain),
\* every domain, or none.
FeedbackChoices(data) ==
  LET all_domains == unique(data, "Domain")
  IN  { SubSeq(all_domains, 1, 1), all_domains, << >> }

feedback_columns == { "Domain", "Feedback", "Participant_ID", "Project_Completion" }

\* tabs[3] of main(): feedback_analysis on the stored dataset, or the warning.
FeedbackAnalysis ==
  /\ pc = "feedback"
  /\ IF ~HasData
       THEN /\ screen' = show("feedback_tab", [ kind |-> "warning: Please generate or upload data" ])
            /\ pc' = "images"
            /\ UNCHANGED np_rng
     ELSE LET data == session_state.hackathon_data
          IN  IF ~(feedback_columns \subseteq Columns(data))
                THEN /\ screen' = show("feedback_tab", [ kind |-> "exception: KeyError" ])
                     /\ pc' = "home"
                     /\ UNCHANGED np_rng
              ELSE \E selected_domains_feedback \in FeedbackChoices(data) :
                     IF Len(selected_domains_feedback) = 0
                       THEN /\ screen' = show("feedback_tab",
                                 [ kind |-> "warning: Please select at least one domain" ])
                            /\ pc' = "images"
                            /\ UNCHANGED np_rng
                     ELSE LET f == feedback_domains(data, selected_domains_feedback,
                                                    np_rng, << >>)
                          IN  /\ screen' = show_all(screen, "feedback_tab", f.shown)
                              /\ np_rng' = f.np_rng
                              /\ pc' = "images"
  /\ UNCHANGED << rng, session_state, csv_file, call, off_page_vars >>

\* tabs[4] of main(): the gallery and the image playground; an image that
\* cannot be opened ends the run with the exception.
ImageGallery ==
  /\ pc = "images"
  /\ \E image \in { "picture", "not an image" } :
       screen' = show("image_tab",
                      IF image = "picture" THEN "processed image"
                      ELSE "exception: UnidentifiedImageError")
  /\ pc' = "home"
  /\ UNCHANGED << rng, np_rng, session_state, csv_file, call, off_page_vars >>

Next ==
  \/ ShowHome
  \/ GenerateDatasetPage
  \/ UploadDataset
  \/ AnalyticsDashboard
  \/ FeedbackAnalysis
  \/ ImageGallery

Spec == Init /\ [][Next]_vars

\* ------------------------------------------- the user who tries again

\* The parts of a run of main(), in the order of the script.
Parts == { "home", "data_generation", "upload", "analytics", "feedback", "images" }

\* The script goes on: the run moves to another part, or has ended and the
\* next interaction starts a new run.
Proceed == \E part \in Parts \ { pc } : pc' = part

\* The calls of generate_dataset that return a table.
OkCalls ==
  [ status : { "ok" }, num_participants : ParticipantsChoices, domains : PageDomainsChoices,
    states : PageStatesChoices, seed : PageSeedChoices ]

\* A press of "Generate Dataset" with a selection generate_dataset accepts: the
\* call returns a table and the run goes on to the uploader.
RetryGenerate ==
  /\ pc = "data_generation"
  /\ pc' = "upload"
  /\ call' \in OkCalls

\* The rest of the data tab in a run that has generated a dataset, with no
\* file in the uploader: the generated dataset stays the stored one.
KeepGenerated ==
  /\ pc = "upload"
  /\ call \in OkCalls
  /\ pc' = "analytics"
  /\ session_state' = session_state

\* The run has generated a dataset and left the uploader empty: the stored
\* dataset is the generated one.
GeneratedHeld ==
  /\ call \in OkCalls
  /\ "Upload a CSV file" \in DOMAIN screen.widgets
  /\ screen.widgets["Upload a CSV file"] = NoUpload.name
  /\ HasData
  /\ Len(session_state.hackathon_data) = call.num_participants

\* The analytics tab in a run that holds the dataset it has generated, with
\* filters that keep at least one row.
RenderAnalytics ==
  /\ GeneratedHeld
  /\ AnalyticsDashboard
  /\ Len(screen'.analytics_tab) > 0
  /\ screen'.analytics_tab[Len(screen'.analytics_tab)].kind = "charts"

\* Streamlit runs the script to its end at every interaction of the user, and
\* the user goes on interacting (weak fairness of Proceed); a user who adjusts
\* the inputs and retries presses the button with a valid selection again and
\* again, and in such runs leaves the uploader empty and the filters wide
\* enough (strong fairness of the three steps above).
SpecRetry ==
  /\ Init
  /\ [][Next]_vars
  /\ WF_pc(Proceed)
  /\ SF_pc(RetryGenerate)
  /\ SF_pc(KeepGenerated)
  /\ SF_pc(RenderAnalytics)

\* ------------------------------------- two sessions in the same process

\* Streamlit runs the script of every session in a thread of the one server
\* process: the generators of `random` and numpy and the working directory are
\* shared, st.session_state is not.  A thread can be switched between any two
\* statements; here it is switched between the statements of the "Generate
\* Dataset" branch, and inside the loop of generate_dataset every BlockRows
\* iterations.
InitSessions == Init

\* The button is pressed in session t: generate_dataset is entered.
ThreadPress(t) ==
  /\ threads[t].pc = "idle"
  /\ \E num_participants \in ParticipantsChoices, seed \in PageSeedChoices :
       threads' = [ threads EXCEPT ![t].pc = "random.seed",
                                   ![t].args = [ num_participants |-> num_participants,
                                                 domains |-> default_domains,
                                                 states |-> default_states,
                                                 seed |-> seed ] ]
  /\ UNCHANGED << rng, np_rng, csv_file >>

\* random.seed(seed)
ThreadSeed(t) ==
  /\ threads[t].pc = "random.seed"
  /\ rng' = reseed(rng, threads[t].args.seed)
  /\ threads' = [ threads EXCEPT ![t].pc = "np.random.seed" ]
  /\ UNCHANGED << np_rng, csv_file >>

\* np.random.seed(seed); data = []
ThreadNpSeed(t) ==
  /\ threads[t].pc = "np.random.seed"
  /\ np_rng' = np_random_seed(threads[t].args.seed)
  /\ threads' = [ threads EXCEPT ![t].pc = "loop", ![t].i = first_index, ![t].data = << >> ]
  /\ UNCHANGED << rng, csv_file >>

\* The next iterations of the loop, up to BlockRows of them, or its end.
ThreadLoop(t) ==
  /\ threads[t].pc = "loop"
  /\ LET th   == threads[t]
         last == IF th.i + BlockRows - 1 < th.args.num_participants
                   THEN th.i + BlockRows - 1 ELSE th.args.num_participants
         g    == generate_loop(rng, th.i, last, th.args.domains, th.args.states, th.data)
     IN  IF th.i > th.args.num_participants
           THEN /\ threads' = [ threads EXCEPT ![t].pc = "store" ]
                /\ UNCHANGED rng
         ELSE /\ threads' = [ threads EXCEPT ![t].i = last + 1, ![t].data = g.data ]
              /\ rng' = g.rng
  /\ UNCHANGED << np_rng, csv_file >>

\* st.session_state.hackathon_data = data, and the download link.
ThreadStore(t) ==
  /\ threads[t].pc = "store"
  /\ threads' = [ threads EXCEPT ![t].pc = "save",
                                 ![t].session_state = store(threads[t].data),
                                 ![t].download = [ exists |-> TRUE,
                                                   lines |-> to_csv(threads[t].data) ] ]
  /\ UNCHANGED << rng, np_rng, csv_file >>

\* data.to_csv("hackathon_data.csv", index=False)
ThreadSave(t) ==
  /\ threads[t].pc = "save"
  /\ csv_file' = [ exists |-> TRUE, lines |-> to_csv(threads[t].data) ]
  /\ threads' = [ threads EXCEPT ![t].pc = "done" ]
  /\ UNCHANGED << rng, np_rng >>

NextSessions ==
  /\ \E t \in Sessions :
       \/ ThreadPress(t)
       \/ ThreadSeed(t)
       \/ ThreadNpSeed(t)
       \/ ThreadLoop(t)
       \/ ThreadStore(t)
       \/ ThreadSave(t)
  /\ UNCHANGED << session_state, pc, screen, call, gen_vars, analysis >>

SpecSessions == InitSessions /\ [][NextSessions]_vars

\* ------------------------------------------- the sentiment of a domain

positive_keywords ==
  << "loved", "great", "amazing", "excellent", "insightful",
     "enjoyed", "beneficial", "helpful", "rewarding", "best" >>
negative_keywords ==
  << "disappointing", "poor", "issues", "frustrating", "unclear",
     "exhausting", "minimal", "bad", "lost", "overcrowded" >>

ascii_uppercase == "ABCDEFGHIJKLMNOPQRSTUVWXYZ"
ascii_lowercase == "abcdefghijklmnopqrstuvwxyz"

\* The k-th character of a text.
char(text, k) == SubSeq(text, k, k)

\* The lower-case letter of every upper-case letter.
lower_of ==
  [ c \in { char(ascii_uppercase, k) : k \in 1 .. Len(ascii_uppercase) } |->
      char(ascii_lowercase,
           CHOOSE k \in 1 .. Len(ascii_uppercase) : char(ascii_uppercase, k) = c) ]

\* str.lower() of one character.
lower_char(c) == IF c \in DOMAIN lower_of THEN lower_of[c] ELSE c

\* str.lower() of a text, as the sequence of its characters.
lower(text) == [ k \in 1 .. Len(text) |-> lower_char(char(text, k)) ]

\* The characters have the word's characters from position i on.
match_at(chars, word, i) ==
  /\ i + Len(word) - 1 <= Len(chars)
  /\ \A j \in 1 .. Len(word) : chars[i + j - 1] = word[j]

\* Series.str.contains(word, case=False) for one text and a word of letters.
str_contains(text, word) ==
  LET chars == lower(text)
      w     == lower(word)
  IN  \E i \in 1 .. Len(chars) : match_at(chars, w, i)

\* Series.str.contains(word, case=False).sum(): the rows that contain the word.
contains_sum(feedbacks, word) ==
  Cardinality({ k \in 1 .. Len(feedbacks) : str_contains(feedbacks[k], word) })

RECURSIVE sum(_)
sum(numbers) == IF Len(numbers) = 0 THEN 0 ELSE Head(numbers) + sum(Tail(numbers))

\* The rows that contain at least one of the keywords.
keyword_count_rows(feedbacks, keywords) ==
  Cardinality({ k \in 1 .. Len(feedbacks) :
                  \E w \in Elements(keywords) : str_contains(feedbacks[k], w) })

\* sum(domain_data['Feedback'].str.contains(word, case=False).sum() for word in keywords)
keyword_count(feedbacks, keywords) ==
  sum([ k \in 1 .. Len(keywords) |-> contains_sum(feedbacks, keywords[k]) ])

\* A float that is the quotient of two integers.
Quotient(num, den) == [ status |-> "ok", num |-> num, den |-> den ]

\* The division made whatever the total.
percent_unguarded(count, total_keywords) ==
  IF total_keywords = 0 THEN [ status |-> "ZeroDivisionError" ]
  ELSE Quotient(count * 100, total_keywords)

\* (count / total_keywords * 100) if total_keywords > 0 else 0
percent(count, total_keywords) ==
  IF total_keywords > 0 THEN Quotient(count * 100, total_keywords) ELSE Quotient(0, 1)

\* The sentiment analysis of domain_feedback_analysis for the feedback texts of
\* the rows of a domain: the two counts and the value of the gauge.
sentiment_analysis(feedbacks) ==
  LET positive_count == keyword_count(feedbacks, positive_keywords)
      negative_count == keyword_count(feedbacks, negative_keywords)
      total_keywords == positive_count + negative_count
      positive_percent == percent(positive_count, total_keywords)
      negative_percent == percent(negative_count, total_keywords)
  IN  IF positive_percent.status # "ok"
        THEN [ status |-> positive_percent.status ]
        ELSE [ status |-> "ok",
               positive_count |-> positive_count, negative_count |-> negative_count,
               positive_percent |-> positive_percent,
               negative_percent |-> negative_percent ]

\* Feedback texts of rows of one domain: texts generate_dataset builds for
\* AI/ML, with and without tracked keywords, and texts of uploaded tables.
FeedbackTexts ==
  { format_domain(positive_feedback[1], "AI/ML") \o extra_phrase("data"),
    format_domain(positive_feedback[5], "AI/ML"),
    format_domain(positive_feedback[7], "AI/ML") \o extra_phrase("models"),
    format_domain(neutral_feedback[1], "AI/ML"),
    format_domain(neutral_feedback[3], "AI/ML"),
    format_domain(negative_feedback[1], "AI/ML"),
    format_domain(negative_feedback[6], "AI/ML"),
    "Great robots.",
    "BADGES FOR ALL" }

FeedbackChoicesOfRows(n) == [ 1 .. n -> FeedbackTexts ]

InitScore ==
  /\ rng = 0
  /\ np_rng = 0
  /\ session_state = EmptySession
  /\ csv_file = NoFile
  /\ pc = "home"
  /\ screen = EmptyScreen
  /\ call = NoCall
  /\ gen_args = [ num_participants |-> 0, domains |-> << >>, states |-> << >>, seed |-> 0 ]
  /\ gen_result = NoResult
  /\ gen_first = NoResult
  /\ gen_log = [ calls |-> 0, disturbed |-> FALSE, between |-> FALSE ]
  /\ threads = [ t \in Sessions |-> IdleThread ]
  /\ \E n \in 1 .. MaxFeedbackRows :
       \E feedbacks \in FeedbackChoicesOfRows(n) :
         analysis = [ feedbacks |-> feedbacks, result |-> NoResult ]

\* The sentiment analysis of the feedback texts given.
CallSentiment ==
  /\ analysis.result = NoResult
  /\ analysis' = [ analysis EXCEPT !.result = sentiment_analysis(analysis.feedbacks) ]
  /\ UNCHANGED << rng, np_rng, page_vars, gen_vars, threads >>

NextScore == CallSentiment

SpecScore == InitScore /\ [][NextScore]_vars

\* ------------------------------------- the most common words of feedback

\* The stop-word list of feedback_analysis (its last entries repeat earlier ones).
stopwords ==
  << "i", "me", "my", "myself", "we", "our", "ours", "ourselves", "you", "you're", "you've",
     "you'll", "you'd", "your", "yours", "yourself", "yourselves", "he", "him", "his",
     "himself", "she", "she's", "her", "hers", "herself", "it", "it's", "its", "itself",
     "they", "them", "their", "theirs", "themselves", "what", "which", "who", "whom", "this",
     "that", "that'll", "these", "those", "am", "is", "are", "was", "were", "be", "been",
     "being", "have", "has", "had", "having", "do", "does", "did", "doing", "a", "an", "the",
     "and", "but", "if", "or", "because", "as", "until", "while", "of", "at", "by", "for",
     "with", "about", "against", "between", "into", "through", "during", "before", "after",
     "above", "below", "to", "from", "up", "down", "in", "out", "on", "off", "over", "under",
     "again", "further", "then", "once", "here", "there", "when", "where", "why", "how",
     "all", "any", "both", "each", "few", "more", "most", "other", "some", "such", "no",
     "nor", "not", "only", "own", "same", "so", "than", "too", "very", "s", "t", "can",
     "will", "just", "don", "don't", "should", "should've", "now", "d", "ll", "m", "o", "re",
     "ve", "y", "ain", "aren", "aren't", "couldn", "couldn't", "didn", "didn't", "doesn",
     "doesn't", "hadn", "hadn't", "hasn", "hasn't", "haven", "haven't", "isn", "isn't", "ma",
     "mightn", "mightn't", "mustn", "mustn't", "needn", "needn't", "shan", "shan't",
     "shouldn", "shouldn't", "wasn", "wasn't", "weren", "weren't", "won", "won't", "wouldn",
     "wouldn't", "the", "was", "and", "for", "would" >>

ascii_digits == "0123456789"

\* The characters [a-zA-Z] matches, and those \\w matches in an ASCII text.
Letters ==
  { char(ascii_lowercase, k) : k \in 1 .. Len(ascii_lowercase) }
    \cup { char(ascii_uppercase, k) : k \in 1 .. Len(ascii_uppercase) }
WordChars == Letters \cup { char(ascii_digits, k) : k \in 1 .. Len(ascii_digits) } \cup { "_" }

\* Series.str.cat(sep=sep)
RECURSIVE str_cat(_, _)
str_cat(texts, sep) ==
  IF Len(texts) = 0 THEN ""
  ELSE IF Len(texts) = 1 THEN texts[1]
  ELSE texts[1] \o sep \o str_cat(Tail(texts), sep)

\* str.lower() of a text.
RECURSIVE lower_text(_)
lower_text(text) ==
  IF Len(text) = 0 THEN ""
  ELSE IF Len(text) = 1 THEN lower_char(text)
  ELSE LET half == Len(text) \div 2
       IN  lower_text(SubSeq(text, 1, half)) \o lower_text(SubSeq(text, half + 1, Len(text)))

\* re.findall(r'\b[a-zA-Z]{3,15}\b', text): a match starts at a word boundary,
\* takes 3 to 15 letters and ends at a word boundary; the matches in the order
\* of their positions.
findall_words(text) ==
  LET n == Len(text)
      wordchar(k) == k >= 1 /\ k <= n /\ char(text, k) \in WordChars
      boundary(k) == wordchar(k - 1) # wordchar(k)
      ends(i) == { j \in i + 2 .. (IF i + 14 < n THEN i + 14 ELSE n) :
                     /\ \A k \in i .. j : char(text, k) \in Letters
                     /\ boundary(j + 1) }
      start(i) == boundary(i) /\ ends(i) # { }
      starts == SelectSeq([ i \in 1 .. n |-> i ], start)
  IN  [ k \in 1 .. Len(starts) |->
          SubSeq(text, starts[k], CHOOSE j \in ends(starts[k]) : TRUE) ]

\* Every word kept.
not_stopword_any(word) == TRUE

\* word not in stopwords
not_stopword(word) == word \notin Elements(stopwords)

\* Counter(words).items(): the distinct words in the order of their first
\* occurrence, each with the number of its occurrences.
Counter(words) ==
  LET first(i) == \A j \in 1 .. i - 1 : words[j] # words[i]
      firsts   == SelectSeq([ i \in 1 .. Len(words) |-> i ], first)
  IN  [ k \in 1 .. Len(firsts) |->
          [ Word |-> words[firsts[k]],
            Frequency |-> Cardinality({ j \in 1 .. Len(words) : words[j] = words[firsts[k]] }) ] ]

\* The first n items as they come.
most_common_unsorted(items, n) ==
  SubSeq(items, 1, IF n < Len(items) THEN n ELSE Len(items))

\* Counter.most_common(n): the n items of highest count, highest first, items
\* of equal count in the order of the counter.
most_common(items, n) ==
  LET before(j, k) == \/ items[j].Frequency > items[k].Frequency
                      \/ (items[j].Frequency = items[k].Frequency /\ j < k)
      rank(k) == 1 + Cardinality({ j \in 1 .. Len(items) : before(j, k) })
  IN  [ r \in 1 .. (IF n < Len(items) THEN n ELSE Len(items)) |->
          items[CHOOSE k \in 1 .. Len(items) : rank(k) = r] ]

\* Counter(words).most_common(15)
TopWords == 15

\* The word counts feedback_analysis charts for the feedback texts of the rows
\* of the selected domains: the counter, and its most common words.
word_counts(feedbacks) ==
  LET combined_feedback == str_cat(feedbacks, " ")
      words    == findall_words(lower_text(combined_feedback))
      filtered == SelectSeq(words, not_stopword)
      counter  == Counter(filtered)
  IN  [ status |-> "ok", combined_feedback |-> combined_feedback,
        counter |-> counter, word_counts |-> most_common(counter, TopWords) ]

\* Feedback texts of rows of the selected domains: texts generate_dataset
\* builds, and texts of uploaded tables with capitals, digits, hyphens, a word
\* of more than 15 letters and many different words.
WordTexts ==
  { format_domain(positive_feedback[1], "AI/ML") \o extra_phrase("data"),
    format_domain(positive_feedback[8], "IoT") \o extra_phrase("sensors"),
    format_domain(neutral_feedback[3], "Web Development") \o extra_phrase("API"),
    format_domain(negative_feedback[2], "Blockchain") \o extra_phrase("web3"),
    format_domain(negative_feedback[10], "Robotics"),
    "Great robots. GREAT ROBOTS! great_robots and robots4ever",
    "Incomprehensibilities aside, judges praised design, testing, deployment, security, teamwork, patience, humour, planning, coffee, slides, demos, prizes, venue and music.",
    "Music venue prizes demos slides; music venue prizes; music venue; music." }

WordChoicesOfRows(n) == [ 1 .. n -> WordTexts ]

InitWords ==
  /\ rng = 0
  /\ np_rng = 0
  /\ session_state = EmptySession
  /\ csv_file = NoFile
  /\ pc = "home"
  /\ screen = EmptyScreen
  /\ call = NoCall
  /\ gen_args = [ num_participants |-> 0, domains |-> << >>, states |-> << >>, seed |-> 0 ]
  /\ gen_result = NoResult
  /\ gen_first = NoResult
  /\ gen_log = [ calls |-> 0, disturbed |-> FALSE, between |-> FALSE ]
  /\ threads = [ t \in Sessions |-> IdleThread ]
  /\ \E n \in 1 .. MaxFeedbackRows :
       \E feedbacks \in WordChoicesOfRows(n) :
         analysis = [ feedbacks |-> feedbacks, result |-> NoResult ]

\* The word counts of the feedback texts given.
CallWordCounts ==
  /\ analysis.result = NoResult
  /\ analysis' = [ analysis EXCEPT !.result = word_counts(analysis.feedbacks) ]
  /\ UNCHANGED << rng, np_rng, page_vars, gen_vars, threads >>

NextWords == CallWordCounts

SpecWords == InitWords /\ [][NextWords]_vars

\* ------------------------------------ random_date_time called on its own

\* Raw draws of random.random(): the ends of its range, and values between.
DrawChoices ==
  { 0, 1, RandRes \div 4, RandRes \div 2, RandRes - 2, RandRes - 1 }

InitDates ==
  /\ rng = 0
  /\ np_rng = 0
  /\ session_state = EmptySession
  /\ csv_file = NoFile
  /\ pc = "home"
  /\ screen = EmptyScreen
  /\ call = NoCall
  /\ gen_args = [ num_participants |-> 0, domains |-> << >>, states |-> << >>, seed |-> 0 ]
  /\ gen_result = NoResult
  /\ gen_first = NoResult
  /\ gen_log = [ calls |-> 0, disturbed |-> FALSE, between |-> FALSE ]
  /\ threads = [ t \in Sessions |-> IdleThread ]
  /\ \E day \in 1 .. 3, random_days \in DrawChoices, random_seconds \in DrawChoices :
       analysis = [ day |-> day, random_days |-> random_days,
                    random_seconds |-> random_seconds, result |-> NoResult ]

\* registration_time = random_date_time(start_date, end_date) for a row of the
\* day and the two draws given.
CallRandomDateTime ==
  /\ analysis.result = NoResult
  /\ analysis' = [ analysis EXCEPT !.result =
                     [ status |-> "ok",
                       registration_time |->
                         random_date_time(analysis.random_days, analysis.random_seconds,
                                          registration_start(analysis.day),
                                          registration_end(analysis.day)) ] ]
  /\ UNCHANGED << rng, np_rng, page_vars, gen_vars, threads >>

NextDates == CallRandomDateTime

SpecDates == InitDates /\ [][NextDates]_vars

\* ------------------------------------------------- properties: generator

\* The direct call has returned or raised.
Called == gen_result # NoResult
ValidLists == Len(gen_args.domains) > 0 /\ Len(gen_args.states) > 0
Rows == IF gen_result.status = "ok" THEN Elements(gen_result.data) ELSE { }

\* The event epoch 2023-03-15 00:00:00 and the length of a day, in ticks.
EventEpoch == 14 * 86400 * TicksPerSecond
DayTicks == 86400 * TicksPerSecond

\* C1. Determinism: every call of generate_dataset with the fixed (count,
\* domains, regions, seed) returns the table (or raises the error) the first
\* such call did, whatever ran in between and whatever state the global
\* generators were left in.
C1_Determinism == Called => gen_result = gen_first

\* C1 witness: a second call, made after another generation with another seed,
\* has returned a table of at least two rows.
C1_Witness ==
  /\ gen_log.calls = 2
  /\ gen_log.between
  /\ gen_result.status = "ok"
  /\ Len(gen_result.data) >= 2

\* "P" followed by the three decimal digits of k (k < 1000).
ExpectedId(k) ==
  "P" \o ToString(k \div 100) \o ToString((k \div 10) % 10) \o ToString(k % 10)

\* C2. Count and uniqueness: with count >= 1 and non-empty domains and regions
\* the call returns exactly count rows, and row k has the id P{k:03d}, so the
\* ids run from P001 to P{count:03d} with no duplicate and no gap.
C2_CountAndIds ==
  (Called /\ gen_args.num_participants >= 1 /\ ValidLists) =>
    /\ gen_result.status = "ok"
    /\ Len(gen_result.data) = gen_args.num_participants
    /\ \A k \in 1 .. Len(gen_result.data) :
         gen_result.data[k].Participant_ID = str(ExpectedId(k))
    /\ \A j, k \in 1 .. Len(gen_result.data) :
         j # k => gen_result.data[j].Participant_ID # gen_result.data[k].Participant_ID

\* C2 witness: a table of BigCount rows whose last id has two significant digits.
C2_Witness ==
  /\ gen_result.status = "ok"
  /\ Len(gen_result.data) = BigCount
  /\ gen_result.data[1].Participant_ID = str("P001")
  /\ gen_result.data[10].Participant_ID = str("P010")

\* The window of day d: from the epoch + (d-1) days at 00:00:00 to the same
\* date at 23:59:59.
WindowStart(d) == EventEpoch + (d - 1) * DayTicks
WindowEnd(d) == EventEpoch + (d - 1) * DayTicks + 86399 * TicksPerSecond

C4_Closure ==
  \A r \in Rows :
    /\ r.Domain.type = "str" /\ r.Domain.str \in Elements(gen_args.domains)
    /\ r.State.type = "str" /\ r.State.str \in Elements(gen_args.states)

\* C4 witness: a table whose rows use two different domains of the argument.
C4_Witness ==
  /\ Len(gen_args.domains) = 2
  /\ \E r1, r2 \in Rows : r1.Domain # r2.Domain

\* C7 as claimed. A call with count < 1 and non-empty lists fails and returns
\* no table.
C7_NonPositiveCountFails ==
  (Called /\ gen_args.num_participants < 1 /\ ValidLists) => gen_result.status # "ok"

\* The texts generate_dataset can build from a template for a row's domain.
Instances(template, domain) ==
  { format_domain(template, domain) } \cup
  ( IF domain \in DOMAIN domain_keywords
      THEN { format_domain(template, domain) \o extra_phrase(kw) :
               kw \in Elements(domain_keywords[domain]) }
      ELSE { } )

\* The row's feedback was built from a template of the pool.
FromPool(r, pool) ==
  \E t \in Elements(pool) : r.Feedback.str \in Instances(t, r.Domain.str)

\* C8. Completion range by sentiment: a row whose feedback comes from the
\* positive or the neutral pool has a completion in 60..100, a row whose
\* feedback comes from the negative pool a completion in 30..85; every row is
\* of one of the three kinds.
C8_CompletionRange ==
  \A r \in Rows :
    /\ FromPool(r, positive_feedback) \/ FromPool(r, neutral_feedback)
         \/ FromPool(r, negative_feedback)
    /\ (FromPool(r, positive_feedback) \/ FromPool(r, neutral_feedback)) =>
         r.Project_Completion.int \in 60 .. 100
    /\ FromPool(r, negative_feedback) => r.Project_Completion.int \in 30 .. 85

\* C8 witness: a table with a negative row and a row that is not negative.
C8_Witness ==
  /\ \E r \in Rows : FromPool(r, negative_feedback)
  /\ \E r \in Rows : FromPool(r, positive_feedback) \/ FromPool(r, neutral_feedback)

\* ------------------------------------------------ properties: the page

\* The page scr shows the text on the tab.
Shown(scr, tab, text) == \E k \in 1 .. Len(scr[tab]) : scr[tab][k] = text

\* The widget of the given label is on the page scr and holds the value.
HasWidget(scr, label, value) == label \in DOMAIN scr.widgets /\ scr.widgets[label] = value

\* How many times the page scr shows the text on the tab.
Times(scr, tab, text) == Cardinality({ k \in 1 .. Len(scr[tab]) : scr[tab][k] = text })

Last(seq) == seq[Len(seq)]

\* C5. Validation rejection for an empty domain set: a run of the data tab
\* made with no domain selected shows the validation error, calls no
\* generation, shows and writes no table, and leaves the stored dataset (or
\* the absence of one) as it was.
C5_EmptyDomainsRejected ==
  [][ (pc = "data_generation" /\ HasWidget(screen', "Select Hackathon Domains", << >>)) =>
        /\ Shown(screen', "data_tab", "error: Please select at least one domain")
        /\ ~Shown(screen', "data_tab", "dataframe")
        /\ call' = NoCall
        /\ session_state' = session_state
        /\ csv_file' = csv_file ]_vars

\* C5 witness: a run that holds a dataset was made with no domain selected and
\* has shown the error.
C5_Witness ==
  /\ HasData
  /\ HasWidget(screen, "Select Hackathon Domains", << >>)
  /\ Shown(screen, "data_tab", "error: Please select at least one domain")

\* C6 as claimed. Validation of an empty region set: generate_dataset is never
\* entered with an empty states argument, the page having rejected the request.
C6_EmptyStatesRejected ==
  call # NoCall => (Len(call.states) > 0 /\ call.status # "IndexError")

\* The files of the uploader that cannot be parsed.
malformed_files == { "empty.csv", "ragged.csv" }

\* C9. Parse error keeps state: an upload of a file that cannot be parsed
\* leaves the stored dataset (or the absence of one) exactly as it was, ends
\* the run with the exception shown, and shows no table for the upload.
C9_ParseErrorKeepsState ==
  [][ (pc = "upload" /\ \E f \in malformed_files : HasWidget(screen', "Upload a CSV file", f)) =>
        /\ session_state' = session_state
        /\ Last(screen'.data_tab) \in { "exception: EmptyDataError", "exception: ParserError" }
        /\ ~Shown(screen', "data_tab", "success: loaded")
        /\ Times(screen', "data_tab", "dataframe") = Times(screen, "data_tab", "dataframe") ]_vars

\* C9 witness: a run that generated a dataset went on to upload the file with
\* an overlong line; the exception is shown and the generated dataset is held.
C9_Witness ==
  /\ call # NoCall
  /\ call.status = "ok"
  /\ HasWidget(screen, "Upload a CSV file", "ragged.csv")
  /\ Shown(screen, "data_tab", "exception: ParserError")
  /\ HasData
  /\ Len(session_state.hackathon_data) = call.num_participants

\* C10. Wholesale replacement: the stored dataset changes only in a successful
\* generation or a successful upload, and then it is the new table and nothing
\* else; the analytics, feedback and image tabs leave it unchanged, and the
\* filtered result the analytics tab showed is the one the same filters give
\* on the dataset held after the step.
C10_WholesaleReplacement ==
  [][ /\ (session_state' # session_state) =>
            /\ DOMAIN session_state' = { "hackathon_data" }
            /\ \/ /\ pc = "data_generation"
                  /\ call' # NoCall
                  /\ call'.status = "ok"
                  /\ session_state'.hackathon_data =
                       generate_dataset(rng, call'.num_participants, call'.domains,
                                        call'.states, call'.seed).data
               \/ /\ pc = "upload"
                  /\ \E f \in UploadChoices :
                       /\ f.uploaded
                       /\ HasWidget(screen', "Upload a CSV file", f.name)
                       /\ read_csv(f.lines).status = "ok"
                       /\ session_state'.hackathon_data = read_csv(f.lines).data
      /\ (pc \in { "home", "analytics", "feedback", "images" }) =>
            session_state' = session_state
      /\ (pc = "analytics" /\ pc' = "feedback" /\ HasData) =>
            Last(screen'.analytics_tab).participants =
              Len(apply_filters(session_state'.hackathon_data,
                                Last(screen'.analytics_tab).selection)) ]_vars

\* C10 witness: a run generated a dataset, replaced it by an uploaded table
\* written by another program, and charted the filtered rows of that table.
C10_Witness ==
  /\ call # NoCall
  /\ call.status = "ok"
  /\ HasWidget(screen, "Upload a CSV file", "foreign.csv")
  /\ HasData
  /\ session_state.hackathon_data = read_csv(foreign_csv).data
  /\ Len(screen.analytics_tab) > 0
  /\ Last(screen.analytics_tab).kind = "charts"

\* What analytics_dashboard has put on the page for a selection of filters.
FilterResults ==
  { e \in Elements(screen.analytics_tab) : e.kind \in { "charts", "warning: No data available" } }

\* C11. Empty filter result: whenever analytics_dashboard has run on the stored
\* dataset with a selection, it has shown the warning and no chart if the
\* selection keeps no row of the dataset, and the charts and no warning if it
\* keeps at least one; nothing else of the tab follows the warning.
C11_EmptyFilterWarns ==
  \A e \in FilterResults :
    /\ HasData
    /\ e.participants = Len(apply_filters(session_state.hackathon_data, e.selection))
    /\ (e.participants = 0) <=> (e.kind = "warning: No data available")
    /\ (e.participants >= 1) <=> (e.kind = "charts")
    /\ Len(screen.analytics_tab) = 1

\* C11 witness: a selection with every domain deselected kept no row of a
\* stored dataset that has rows, and the warning is shown.
C11_Witness ==
  /\ HasData
  /\ Len(session_state.hackathon_data) > 0
  /\ \E e \in FilterResults :
       /\ e.kind = "warning: No data available"
       /\ e.selection.domains = << >>
       /\ e.participants = 0

\* ------------------------------------------------ properties: sessions

\* The table generate_dataset returns for the arguments of session t on its own.
OwnTable(t) ==
  generate_dataset(0, threads[t].args.num_participants, threads[t].args.domains,
                   threads[t].args.states, threads[t].args.seed).data

\* C12 as claimed. Session independence: under every interleaving of two
\* sessions, the table a session's generation returns is the one its own
\* (count, domains, states, seed) determine, the dataset it stores is that
\* table, and once it has exported the table the export holds that table
\* whatever the other session does.
C12_SessionIndependence ==
  \A t \in Sessions :
    /\ threads[t].pc \in { "store", "save", "done" } => threads[t].data = OwnTable(t)
    /\ threads[t].pc \in { "save", "done" } =>
         /\ threads[t].session_state = store(OwnTable(t))
         /\ threads[t].download.lines = to_csv(OwnTable(t))
    /\ threads[t].pc = "done" =>
         (csv_file.exists /\ csv_file.lines = to_csv(threads[t].data))

\* ------------------------------------------------ properties: sentiment

\* The sentiment analysis has been made of the feedback texts given.
Scored == analysis.result # NoResult

\* The text contains the word as a substring, letter case ignored.
ContainsIgnoringCase(text, word) ==
  \E i \in 1 .. Len(text) - Len(word) + 1 :
    lower(SubSeq(text, i, i + Len(word) - 1)) = lower(word)

\* The (row, keyword) pairs of the feedback texts given, for a keyword list.
KeywordHits(keywords) ==
  { h \in (1 .. Len(analysis.feedbacks)) \X Elements(keywords) :
      ContainsIgnoringCase(analysis.feedbacks[h[1]], h[2]) }

\* C13. Scorer zero denominator: when no feedback text of the domain contains
\* a tracked positive or negative keyword, the analysis raises no error and
\* reports a positive share of 0.
C13_ScorerZeroDenominator ==
  (Scored /\ KeywordHits(positive_keywords) = { } /\ KeywordHits(negative_keywords) = { }) =>
    /\ analysis.result.status = "ok"
    /\ analysis.result.positive_percent.num = 0
    /\ analysis.result.positive_percent.den > 0
    /\ analysis.result.positive_count = 0
    /\ analysis.result.negative_count = 0

\* C13 witness: two feedback texts without any tracked keyword have been scored.
C13_Witness ==
  /\ Scored
  /\ Len(analysis.feedbacks) >= 2
  /\ KeywordHits(positive_keywords) = { }
  /\ KeywordHits(negative_keywords) = { }

\* C14. Scorer result: positive_count (negative_count) is the number of (row,
\* keyword) pairs where the row's text contains the keyword of the positive
\* (negative) list as a substring, letter case ignored, so a row with k
\* keywords counts k times; and when the two counts are not both 0 the share
\* reported is 100 * positive_count / (positive_count + negative_count).
C14_ScorerResult ==
  Scored =>
    LET r == analysis.result
        p == Cardinality(KeywordHits(positive_keywords))
        n == Cardinality(KeywordHits(negative_keywords))
    IN  /\ r.status = "ok"
        /\ r.positive_count = p
        /\ r.negative_count = n
        /\ (p + n # 0) =>
             /\ r.positive_percent.den > 0
             /\ r.positive_percent.num * (p + n) = 100 * p * r.positive_percent.den

\* C14 witness: the texts scored hold a row with two positive keywords and a
\* row with a negative keyword written with a capital letter.
C14_Witness ==
  /\ Scored
  /\ \E k \in 1 .. Len(analysis.feedbacks) :
       Cardinality({ h \in KeywordHits(positive_keywords) : h[1] = k }) = 2
  /\ \E h \in KeywordHits(negative_keywords) :
       ~(\E i \in 1 .. Len(analysis.feedbacks[h[1]]) - Len(h[2]) + 1 :
            SubSeq(analysis.feedbacks[h[1]], i, i + Len(h[2]) - 1) = h[2])
  /\ analysis.result.status = "ok"
  /\ analysis.result.positive_count = 2

\* --------------------------------------------- properties: common words

WordsCounted == analysis.result # NoResult /\ analysis.result.status = "ok"

\* The positions at which a token stands as a whole word in a text: the token
\* is there, and no letter, digit or underscore touches it on either side.
Occurrences(text, token) ==
  { i \in 1 .. Len(text) - Len(token) + 1 :
      /\ SubSeq(text, i, i + Len(token) - 1) = token
      /\ (i = 1 \/ char(text, i - 1) \notin WordChars)
      /\ (i + Len(token) - 1 = Len(text) \/ char(text, i + Len(token)) \notin WordChars) }

FirstOccurrence(text, token) ==
  CHOOSE i \in Occurrences(text, token) : \A j \in Occurrences(text, token) : i <= j

\* C15: the extractor returns min(K, number of distinct tokens) entries for
\* the K its caller passes (15), every entry a counted token and no token
\* twice, in descending frequency, tokens of equal frequency in the order of
\* their first occurrence in the concatenated text, and no omitted token has a
\* higher frequency than a returned one.
C15_WordFrequencyOrdering ==
  WordsCounted =>
    LET top     == analysis.result.word_counts
        counter == analysis.result.counter
        text    == lower_text(analysis.result.combined_feedback)
    IN  /\ Len(top) = (IF TopWords < Len(counter) THEN TopWords ELSE Len(counter))
        /\ \A r \in 1 .. Len(top) : top[r] \in Elements(counter)
        /\ \A r, q \in 1 .. Len(top) :
             r < q =>
               /\ top[r].Word # top[q].Word
               /\ \/ top[r].Frequency > top[q].Frequency
                  \/ /\ top[r].Frequency = top[q].Frequency
                     /\ FirstOccurrence(text, top[r].Word) < FirstOccurrence(text, top[q].Word)
        /\ \A item \in Elements(counter) \ Elements(top) :
             \A r \in 1 .. Len(top) : item.Frequency <= top[r].Frequency

\* More distinct tokens than are returned, among the returned ones a tie and a
\* strict descent, and a token of the top frequency that first occurs after a
\* token of a lower one.
C15_Witness ==
  /\ WordsCounted
  /\ Len(analysis.result.counter) > TopWords
  /\ Len(analysis.result.word_counts) = TopWords
  /\ \E r \in 1 .. TopWords - 1 :
       analysis.result.word_counts[r].Frequency = analysis.result.word_counts[r + 1].Frequency
  /\ \E r \in 1 .. TopWords - 1 :
       analysis.result.word_counts[r].Frequency > analysis.result.word_counts[r + 1].Frequency
  /\ \E j, k \in 1 .. Len(analysis.result.counter) :
       j < k /\ analysis.result.counter[j].Frequency < analysis.result.counter[k].Frequency

LowerLetters == { char(ascii_lowercase, k) : k \in 1 .. Len(ascii_lowercase) }

\* C16: every token the extractor counts is a lower-cased, purely alphabetic
\* word of 3 to 15 letters that is not a stop word, and its frequency is the
\* number of its occurrences as a whole word in the concatenated feedback text
\* taken in lower case; a word of more than 15 letters adds to no count.
C16_TokenFilter ==
  WordsCounted =>
    LET counter == analysis.result.counter
        text    == lower_text(analysis.result.combined_feedback)
    IN  /\ \A k \in 1 .. Len(counter) :
             /\ Len(counter[k].Word) >= 3
             /\ Len(counter[k].Word) <= 15
             /\ \A c \in 1 .. Len(counter[k].Word) : char(counter[k].Word, c) \in LowerLetters
             /\ counter[k].Word \notin Elements(stopwords)
             /\ counter[k].Frequency = Cardinality(Occurrences(text, counter[k].Word))
        /\ \A j, k \in 1 .. Len(counter) : j # k => counter[j].Word # counter[k].Word

\* A text with a capital letter, a stop word standing as a whole word and a
\* word of more than 15 letters, and a token counted twice.
C16_Witness ==
  /\ WordsCounted
  /\ analysis.result.combined_feedback # lower_text(analysis.result.combined_feedback)
  /\ Occurrences(lower_text(analysis.result.combined_feedback), "and") # { }
  /\ Len("Incomprehensibilities") > 15
  /\ Occurrences(analysis.result.combined_feedback, "Incomprehensibilities") # { }
  /\ \E k \in 1 .. Len(analysis.result.counter) : analysis.result.counter[k].Frequency >= 2

\* ---------------------------------------------- properties: the export

\* C17 as claimed. Export round trip: when the file a generation has just
\* written is loaded through the uploader, the dataset stored afterwards equals
\* the generated table row for row and field for field, the type and value of
\* Registration_Time and Hours_Spent included.
C17_ExportRoundTrip ==
  [][ ( /\ pc = "upload"
        /\ call # NoCall
        /\ call.status = "ok"
        /\ HasWidget(screen', "Upload a CSV file", "hackathon_data.csv") ) =>
          /\ Shown(screen', "data_tab", "success: loaded")
          /\ session_state'.hackathon_data = session_state.hackathon_data ]_vars

\* ------------------------------------------- properties: recoverability

ValidationErrorShown == Shown(screen, "data_tab", "error: Please select at least one domain")

GenerationFailed == call # NoCall /\ call.status # "ok"

ParseErrorShown ==
  \/ Shown(screen, "data_tab", "exception: EmptyDataError")
  \/ Shown(screen, "data_tab", "exception: ParserError")

EmptyFilterShown == \E e \in FilterResults : e.kind = "warning: No data available"

AfterError == ValidationErrorShown \/ GenerationFailed \/ ParseErrorShown \/ EmptyFilterShown

\* A run has generated a dataset, holds it and has drawn its charts.
Recovered ==
  /\ GeneratedHeld
  /\ Len(screen.analytics_tab) > 0
  /\ Last(screen.analytics_tab).kind = "charts"

\* The session is not stuck: on the data tab some selection makes
\* generate_dataset return a table, the uploader can be left empty, and every
\* other part of a run has a next step.
CanProceed ==
  IF pc = "data_generation"
    THEN \E num_participants \in ParticipantsChoices, domains \in PageDomainsChoices,
            selected_states \in PageStatesChoices, seed \in PageSeedChoices :
           /\ ~no_domains(domains)
           /\ generate_dataset(rng, num_participants, domains, selected_states, seed).status = "ok"
  ELSE IF pc = "upload"
    THEN NoUpload \in UploadChoices
  ELSE ENABLED Next

\* C18. Recoverability: every state that shows a validation error, a failed
\* generation, a parse error or the warning of an empty filter result is
\* followed, for the user who adjusts the inputs and retries, by a state in
\* which a run has generated a dataset and drawn the analytics of it; and
\* nothing is retried automatically: a run that failed to generate or to parse
\* has ended, and the step after it is the start of the next run, which
\* generates nothing, loads nothing and leaves the stored dataset and the file
\* as they were; and the session is never stuck.
C18_Recoverability ==
  /\ AfterError ~> Recovered
  /\ [][ (GenerationFailed \/ ParseErrorShown) =>
           /\ pc = "home"
           /\ call' = NoCall
           /\ UNCHANGED << rng, np_rng, session_state, csv_file >> ]_vars
  /\ [](CanProceed)

\* C18 witness: a run that holds a dataset showed the validation error on the
\* data tab and then the warning of an empty filter result on the analytics tab.
C18_Witness ==
  /\ HasData
  /\ ValidationErrorShown
  /\ EmptyFilterShown

\* --------------------------------------------- properties: fixed pools

\* C19 as claimed. College pool: the pool of colleges has exactly 31 distinct
\* entries, and the college of every generated row is one of them.
C19_CollegePool31 ==
  /\ Cardinality(Elements(colleges)) = 31
  /\ \A r \in Rows : r.College.type = "str" /\ r.College.str \in Elements(colleges)

\* C19 as amended. College pool: the pool of colleges has exactly 32 entries,
\* all distinct, and the college of every generated row is one of them.
C19_CollegePool ==
  /\ Len(colleges) = 32
  /\ Cardinality(Elements(colleges)) = 32
  /\ \A r \in Rows : r.College.type = "str" /\ r.College.str \in Elements(colleges)

\* C19 witness: a table of BigCount rows with three different colleges.
C19_Witness ==
  /\ Called
  /\ gen_result.status = "ok"
  /\ Len(gen_result.data) = BigCount
  /\ \E r1, r2, r3 \in Rows :
       r1.College # r2.College /\ r1.College # r3.College /\ r2.College # r3.College

\* The state of the generator at which the iteration of row i is entered: the
\* state the same call leaves after i - 1 rows.
RowState(i) ==
  generate_dataset(rng, i - 1, gen_args.domains, gen_args.states, gen_args.seed).rng

\* The sentiment label drawn for row i: the thirteenth draw of its iteration.
SentimentOf(i) == choices_sentiment(random_skip(RowState(i), 12))

PoolOf(label) ==
  CASE label = "positive" -> positive_feedback
    [] label = "neutral" -> neutral_feedback
    [] label = "negative" -> negative_feedback

\* C20. Feedback text composition: the feedback of every generated row is a
\* template of the pool of the sentiment label drawn for the row, with the
\* row's domain in the place of the placeholder, followed by exactly one
\* sentence naming a keyword of the domain's keyword pool if the domain has
\* one, and by nothing if it has none.
C20_FeedbackComposition ==
  (Called /\ gen_result.status = "ok") =>
    \A i \in 1 .. Len(gen_result.data) :
      LET r == gen_result.data[i]
          d == r.Domain.str
      IN  \E t \in Elements(PoolOf(SentimentOf(i))) :
            LET filled == t[1] \o d \o t[2]
            IN  IF d \in DOMAIN domain_keywords
                  THEN \E keyword \in Elements(domain_keywords[d]) :
                         r.Feedback.str =
                           filled \o " The " \o keyword \o " component was particularly interesting."
                  ELSE r.Feedback.str = filled

\* C20 witness: a table with a row of a domain that has no keyword pool, a row
\* of a domain that has one, and rows of two different sentiment labels.
C20_Witness ==
  /\ Called
  /\ gen_result.status = "ok"
  /\ \E i, j \in 1 .. Len(gen_result.data) :
       /\ gen_result.data[i].Domain.str \notin DOMAIN domain_keywords
       /\ gen_result.data[j].Domain.str \in DOMAIN domain_keywords
  /\ \E i, j \in 1 .. Len(gen_result.data) : SentimentOf(i) # SentimentOf(j)

\* --------------------------------------------- properties: field ranges

\* C21. Field ranges: in every generated row Day is an integer in 1..3, Age an
\* integer in 18..35, Gender one of Male, Female and Other, and Time_Spent a
\* float of one decimal place between 4.0 and 10.0 (40 to 100 tenths).
C21_FieldRanges ==
  \A r \in Rows :
    /\ r.Day.type = "int" /\ r.Day.int \in 1 .. 3
    /\ r.Age.type = "int" /\ r.Age.int \in 18 .. 35
    /\ r.Gender.type = "str" /\ r.Gender.str \in { "Male", "Female", "Other" }
    /\ r.Time_Spent.type = "float" /\ r.Time_Spent.tenths \in 40 .. 100

\* C21 witness: a table with rows of all three days, of two genders, of ages
\* in the lower and in the upper half of the range, and of less than 5.0 and
\* more than 9.0 hours.
C21_Witness ==
  /\ \A d \in 1 .. 3 : \E r \in Rows : r.Day.int = d
  /\ \E r1, r2 \in Rows : r1.Gender # r2.Gender
  /\ \E r1, r2 \in Rows : r1.Age.int < 27 /\ r2.Age.int >= 27
  /\ \E r1, r2 \in Rows : r1.Time_Spent.tenths < 50 /\ r2.Time_Spent.tenths > 90

\* ------------------------------------------- properties: upload and generate

\* The files of the uploader that the page shows as uploaded in this run and
\* that read_csv parses.
ParsedUploads ==
  { f \in UploadChoices :
      /\ f.uploaded
      /\ HasWidget(screen, "Upload a CSV file", f.name)
      /\ read_csv(f.lines).status = "ok" }

\* The stored dataset is a table generate_dataset returned: only such a table
\* has datetime cells, a loaded one has text in their place.
HoldsGenerated ==
  /\ HasData
  /\ \E k \in 1 .. Len(session_state.hackathon_data) :
       \E column \in DOMAIN session_state.hackathon_data[k] :
         session_state.hackathon_data[k][column].type = "datetime"

\* C22. Upload wins over Generate within one run: when the data tab of a run
\* handles an uploaded file that parses, the stored dataset after the step is
\* the uploaded table, whether or not the button generated a dataset earlier
\* in that run, and the generated table is then not the stored one; the
\* analytics, feedback and image tabs that follow in the run leave the stored
\* dataset and the uploader as they are, so they work on the uploaded table.
C22_UploadWins ==
  [][ /\ (pc = "upload") =>
            \A f \in ParsedUploads' :
              /\ pc' = "analytics"
              /\ HasData'
              /\ session_state'.hackathon_data = read_csv(f.lines).data
              /\ Shown(screen', "data_tab", "success: loaded")
              /\ (call \in OkCalls) =>
                   /\ Shown(screen, "data_tab", "success: generated")
                   /\ HoldsGenerated
                   /\ ~HoldsGenerated'
      /\ (pc \in { "analytics", "feedback", "images" }) =>
            /\ session_state' = session_state
            /\ screen'.widgets = screen.widgets ]_vars

\* C22 witness: a run generated a dataset, then loaded a table written by
\* another program from the uploader, and has drawn the analytics and the
\* feedback tab on the uploaded table.
C22_Witness ==
  /\ call \in OkCalls
  /\ pc = "images"
  /\ \E f \in ParsedUploads : f.name = "foreign.csv"
  /\ session_state.hackathon_data = read_csv(foreign_csv).data
  /\ Len(session_state.hackathon_data) # call.num_participants
  /\ Len(screen.analytics_tab) > 0
  /\ Len(screen.feedback_tab) > 0

\* --------------------------------------- properties: registration time

DateDrawn == analysis.result # NoResult /\ analysis.result.status = "ok"

Stored == DOMAIN session_state # { }

NoDataWarning == [ kind |-> "warning: Please generate or upload data" ]

\* C24. No-data-yet gating: a session comes to hold a dataset only by a
\* generation or an upload that succeeds on the data tab; when the analytics
\* or the feedback tab of a run is reached and the session holds no dataset,
\* the tab shows the warning and nothing else, computes nothing and the run
\* goes on; when the session holds one, the tab does not show that warning but
\* works on the dataset, also on one the data tab of the same run has stored.
C24_NoDataGating ==
  [][ /\ (~Stored /\ Stored') =>
            /\ pc \in { "data_generation", "upload" }
            /\ \/ Last(screen'.data_tab) = "success: saved locally"
               \/ Last(screen'.data_tab) = "dataframe"
      /\ Stored => Stored'
      /\ (pc = "analytics" /\ ~Stored) =>
            /\ screen'.analytics_tab = << NoDataWarning >>
            /\ pc' = "feedback"
            /\ UNCHANGED << rng, np_rng, session_state, csv_file >>
      /\ (pc = "feedback" /\ ~Stored) =>
            /\ screen'.feedback_tab = << NoDataWarning >>
            /\ pc' = "images"
            /\ UNCHANGED << rng, np_rng, session_state, csv_file >>
      /\ (pc = "analytics" /\ (Shown(screen, "data_tab", "success: generated")
                                  \/ Shown(screen, "data_tab", "success: loaded"))) => Stored
      /\ (pc = "analytics" /\ Stored) =>
            /\ Len(screen'.analytics_tab) = 1
            /\ screen'.analytics_tab[1] # NoDataWarning
      /\ (pc = "feedback" /\ Stored) =>
            /\ Len(screen'.feedback_tab) >= 1
            /\ \A k \in 1 .. Len(screen'.feedback_tab) : screen'.feedback_tab[k] # NoDataWarning
    ]_vars

\* C24 witness: a run of a session that holds no dataset has shown the warning
\* on the analytics tab and on the feedback tab.
C24_Witness ==
  /\ ~Stored
  /\ pc = "images"
  /\ screen.analytics_tab = << NoDataWarning >>
  /\ screen.feedback_tab = << NoDataWarning >>

\* ------------------------------------ properties: empty domain selection

NoDomainsRun(scr) == HasWidget(scr, "Select Hackathon Domains", << >>)

\* C25. Empty domain selection blocks the whole data step: from the data tab
\* of a run made with no domain selected to the end of that run, the page has
\* shown neither the states selection nor the uploader, nothing was generated
\* or loaded, the stored dataset, the saved file and the generator are as
\* they were, and the analytics tab that follows works on the dataset an
\* earlier run has stored, if there is one.
C25_EmptyDomainsBlockDataStep ==
  [][ NoDomainsRun(screen') =>
        /\ pc \in { "data_generation", "analytics", "feedback", "images" }
        /\ pc' \in { "analytics", "feedback", "images", "home" }
        /\ DOMAIN screen'.widgets = { "Select Hackathon Domains" }
        /\ screen'.data_tab = << "error: Please select at least one domain" >>
        /\ call' = NoCall
        /\ UNCHANGED << rng, session_state, csv_file >>
        /\ (pc = "analytics" /\ HasData) =>
             /\ screen'.analytics_tab[1] # NoDataWarning
             /\ (screen'.analytics_tab[1].kind \in { "charts", "warning: No data available" }) =>
                  screen'.analytics_tab[1].participants =
                    Len(apply_filters(session_state.hackathon_data,
                                      screen'.analytics_tab[1].selection)) ]_vars

\* C25 witness: a run made with no domain selected, in a session that holds a
\* dataset of an earlier run, has drawn the charts and the feedback tab on
\* that dataset.
C25_Witness ==
  /\ NoDomainsRun(screen)
  /\ HasData
  /\ pc = "images"
  /\ Len(screen.analytics_tab) = 1
  /\ screen.analytics_tab[1].kind = "charts"
  /\ Len(screen.feedback_tab) >= 1
  /\ screen.feedback_tab[1] # NoDataWarning

====
